---- MODULE Spec2Model ----
(***************************************************************************)
(* Model of slot_machine.py: the SlotMachine logic class (reel strips,     *)
(* payout table, line evaluator) and the SlotGUI controller, whose         *)
(* handlers run one at a time on the Tk event loop: button presses,        *)
(* the 80 ms animate_reels timer and the 500 ms finish_spin timer.         *)
(***************************************************************************)
EXTENDS Integers, Sequences, FiniteSets, TLC

VARIABLES
    coins,                 \* self.coins
    wins,                  \* self.wins
    losses,                \* self.losses
    is_spinning,           \* self.is_spinning
    final_indices,         \* self.final_indices, [0..2 -> index]
    reels_stopped,         \* self.reels_stopped, [0..2 -> BOOLEAN]
    reel_positions,        \* self.reel_positions, [0..2 -> index]
    animation_id,          \* self.animation_id: "None" or "timer"
    after_queue,           \* Tk timers pending: callback name -> count
    reel_labels,           \* symbol shown in cell [row][col]
    highlight,             \* rows whose cells carry Highlight.TFrame
    message_label,         \* which text message_label shows
    lines_to_check,        \* grid built by the last finish_spin
    total_payout,          \* total_payout of the last finish_spin
    winning_line_indices,  \* winning_line_indices of the last finish_spin
    spins,                 \* number of spins start_spin has accepted
    ticks,                 \* number of animate_reels timer callbacks run
    last_op,               \* the handler that ran last
    draw_evals,            \* finish_spin runs that evaluated the current draw
    line,                  \* evaluator harness: the line argument
    line_bet,              \* evaluator harness: the bet argument
    line_result,           \* evaluator harness: what the call produced
    grid_result,           \* evaluator harness: finish_spin's loop on the line
    line_raised            \* evaluator harness: the exception the call raised

gui_vars == <<coins, wins, losses, is_spinning, final_indices, reels_stopped,
              reel_positions, animation_id, after_queue, reel_labels,
              highlight, message_label, lines_to_check, total_payout,
              winning_line_indices, spins, ticks, last_op, draw_evals>>

line_vars == <<line, line_bet, line_result, grid_result, line_raised>>

vars == <<coins, wins, losses, is_spinning, final_indices, reels_stopped,
          reel_positions, animation_id, after_queue, reel_labels,
          highlight, message_label, lines_to_check, total_payout,
          winning_line_indices, spins, ticks, last_op, draw_evals,
          line, line_bet, line_result, grid_result, line_raised>>

----------------------------------------------------------------------------
(* Bounds of the model *)

\* accepted spins per session
MaxSpins == 11

\* animate_reels timer callbacks per session
MaxTicks == 2

\* stop-index triples drawn in whole sessions: <<0, 0, 0>> loses,
\* <<11, 1, 1>> wins on the top row; both wrap around a strip end
SessionStops == {<<0, 0, 0>>, <<11, 1, 1>>}

\* initial reel positions explored
StartPositions == {<<11, 0, 5>>, <<0, 11, 6>>}

\* candidate outcomes of the three draws of a first spin; randint keeps
\* those inside each strip
CandidateStops == [0..2 -> (0 - 1)..12]

\* bets handed to the line evaluator on its own
LineBets == {1, 10, 25}

\* longest line handed to the line evaluator on its own
MaxLineLen == 4

\* symbols of those lines: the alphabet and one symbol PAYOUTS lacks
LineSymbols == {"seven", "star", "bell", "lemon", "orange", "cherry", "bar"}

----------------------------------------------------------------------------
(* class SlotMachine *)

REEL_STRIPS ==
    << <<"seven", "bell", "orange", "cherry", "star", "lemon",
         "cherry", "bell", "cherry", "orange", "cherry", "lemon">>,
       <<"cherry", "lemon", "seven", "cherry", "bell", "orange",
         "cherry", "star", "lemon", "cherry", "bell", "orange">>,
       <<"star", "cherry", "lemon", "bell", "orange", "cherry",
         "lemon", "seven", "cherry", "bell", "orange", "cherry">> >>

\* REEL_STRIPS[col][i] with Python's 0-based indices
strip_symbol(col, i) == REEL_STRIPS[col + 1][i + 1]

\* len(strip)
strip_len(col) == Len(REEL_STRIPS[col + 1])

SYMBOLS == {REEL_STRIPS[c][i] : c \in 1..3, i \in 1..12}

PAYOUTS ==
    [s \in {"seven", "star", "bell", "lemon", "orange", "cherry"} |->
        CASE s = "seven"  -> 100
          [] s = "star"   -> 50
          [] s = "bell"   -> 20
          [] s = "lemon"  -> 10
          [] s = "orange" -> 10
          [] s = "cherry" -> 10]

\* PAYOUTS.get(symbol, 1): a default of 1
PAYOUTS_get_default_one(symbol) ==
    IF symbol \in DOMAIN PAYOUTS THEN PAYOUTS[symbol] ELSE 1

\* PAYOUTS.get(symbol, 0)
PAYOUTS_get(symbol) == IF symbol \in DOMAIN PAYOUTS THEN PAYOUTS[symbol] ELSE 0

\* random.randint(a, b): any integer of a..b
randint(a, b) == a..b

\* a triple <<a, b, c>> as a Python list indexed from 0
as_list(t) == [c \in 0..2 |-> t[c + 1]]

\* get_final_indices with randint(0, len(strip)): one past the end allowed
get_final_indices_inclusive(explored) ==
    {f \in explored : \A c \in 0..2 : f[c] \in randint(0, strip_len(c))}

\* get_final_indices: one independent randint(0, len(strip) - 1) per strip;
\* explored is the set of lists the model lets the generator produce
get_final_indices(explored) ==
    {f \in explored : \A c \in 0..2 : f[c] \in randint(0, strip_len(c) - 1)}

\* get_payout_info_for_line with the two-cherry test before the
\* three-of-a-kind test
get_payout_info_cherries_first(l, b) ==
    IF Len(l) < 2 THEN <<"IndexError">>
    ELSE IF l[1] = "cherry" /\ l[2] = "cherry"
         THEN <<b * 5, "two_cherries_from_left">>
    ELSE IF l[1] = l[2] /\ Len(l) < 3 THEN <<"IndexError">>
    ELSE IF l[1] = l[2] /\ l[2] = l[3]
         THEN <<b * PAYOUTS_get(l[1]), <<l[1], "three_of_a_kind">> >>
    ELSE <<0, "None">>

\* get_payout_info_for_line with the two-cherry test on line[1] and line[2]
get_payout_info_cherries_right(l, b) ==
    IF Len(l) < 2 THEN <<"IndexError">>
    ELSE IF l[1] = l[2] /\ Len(l) < 3 THEN <<"IndexError">>
    ELSE IF l[1] = l[2] /\ l[2] = l[3]
         THEN <<b * PAYOUTS_get(l[1]), <<l[1], "three_of_a_kind">> >>
    ELSE IF Len(l) < 3 THEN <<"IndexError">>
    ELSE IF l[2] = "cherry" /\ l[3] = "cherry"
         THEN <<b * 5, "two_cherries_from_left">>
    ELSE <<0, "None">>

\* get_payout_info_for_line with line.count(cherry) == 2 paying bet * 2
get_payout_info_cherries_anywhere(l, b) ==
    IF Len(l) < 2 THEN <<"IndexError">>
    ELSE IF l[1] = l[2] /\ Len(l) < 3 THEN <<"IndexError">>
    ELSE IF l[1] = l[2] /\ l[2] = l[3]
         THEN <<b * PAYOUTS_get(l[1]), <<l[1], "three_of_a_kind">> >>
    ELSE IF Cardinality({k \in 1..Len(l) : l[k] = "cherry"}) = 2
         THEN <<b * 2, "two_cherries">>
    ELSE <<0, "None">>

\* the result of a call that raised instead of returning (payout, reason):
\* get_payout_info_for_line read an element the line does not have
raised(res) == Len(res) = 1

\* get_payout_info_for_line with bet + 5 for the two cherries
get_payout_info_plus_five(l, b) ==
    IF Len(l) < 2 THEN <<"IndexError">>
    ELSE IF l[1] = l[2] /\ Len(l) < 3 THEN <<"IndexError">>
    ELSE IF l[1] = l[2] /\ l[2] = l[3]
         THEN <<b * PAYOUTS_get(l[1]), <<l[1], "three_of_a_kind">> >>
    ELSE IF l[1] = "cherry" /\ l[2] = "cherry"
         THEN <<b + 5, "two_cherries_from_left">>
    ELSE <<0, "None">>

\* get_payout_info_for_line(line, bet) on a line given as a sequence;
\* l[1], l[2], l[3] are Python's line[0], line[1], line[2].  Reading an
\* element past the end raises IndexError; the chained comparison
\* line[0] == line[1] == line[2] reads line[2] only when line[0] == line[1].
get_payout_info_for_line(l, b) ==
    IF Len(l) < 2 THEN <<"IndexError">>
    ELSE IF l[1] = l[2] /\ Len(l) < 3 THEN <<"IndexError">>
    ELSE IF l[1] = l[2] /\ l[2] = l[3]
         THEN <<b * PAYOUTS_get(l[1]), <<l[1], "three_of_a_kind">> >>
    ELSE IF l[1] = "cherry" /\ l[2] = "cherry"
         THEN <<b * 5, "two_cherries_from_left">>
    ELSE <<0, "None">>

----------------------------------------------------------------------------
(* class SlotGUI *)

\* self.bet
bet == 10

\* start_spin refusing only a negative balance
insufficient_coins_negative(c, b) == c < 0

\* start_spin refusing a balance equal to the bet as well
insufficient_coins_or_equal(c, b) == c <= b

\* start_spin's test `self.coins < self.bet`
insufficient_coins(c, b) == c < b

\* column_symbols without the -1 of the row above
column_symbols_no_offset(col, index) ==
    [row \in 0..2 |-> strip_symbol(col, (index + row) % strip_len(col))]

\* the three cells of one column around a centre index:
\* symbol_index = (index + row - 1) % len(strip)
column_symbols(col, index) ==
    [row \in 0..2 |-> strip_symbol(col, (index + row - 1) % strip_len(col))]

\* animate_reels, lines 258-263: every unstopped reel advances by one
advance_positions(rp, rs) ==
    [col \in 0..2 |-> IF ~rs[col] THEN (rp[col] + 1) % strip_len(col)
                      ELSE rp[col]]

\* animate_reels redrawing every column, stopped or not
redraw_all(labels, rp, rs) ==
    [row \in 0..2 |-> [col \in 0..2 |-> column_symbols(col, rp[col])[row]]]

\* animate_reels, lines 265-270: the unstopped columns are redrawn
redraw_unstopped(labels, rp, rs) ==
    [row \in 0..2 |-> [col \in 0..2 |->
        IF ~rs[col] THEN column_symbols(col, rp[col])[row]
        ELSE labels[row][col]]]

\* stop_reel picking the last unstopped reel instead of the first
last_unstopped(rs) ==
    IF \E c \in 0..2 : ~rs[c]
    THEN CHOOSE c \in 0..2 : ~rs[c] /\ \A d \in 0..2 : d > c => rs[d]
    ELSE 3

\* stop_reel, line 281: self.reels_stopped.index(False); 3 stands for ValueError
first_unstopped(rs) ==
    IF \E c \in 0..2 : ~rs[c]
    THEN CHOOSE c \in 0..2 : ~rs[c] /\ \A d \in 0..2 : d < c => rs[d]
    ELSE 3

\* stop_reel, lines 285-291: the stopped column shows the final result
draw_stopped(labels, col, fi) ==
    [row \in 0..2 |-> [c \in 0..2 |->
        IF c = col THEN column_symbols(col, fi[col])[row]
        ELSE labels[row][c]]]

\* build_lines reading every column from the first strip
build_lines_first_strip(fi) ==
    [row \in 0..2 |->
        << column_symbols(0, fi[0])[row],
           column_symbols(0, fi[1])[row],
           column_symbols(0, fi[2])[row] >>]

\* finish_spin, lines 331-339: the three horizontal lines, each a sequence
build_lines(fi) ==
    [row \in 0..2 |->
        << column_symbols(0, fi[0])[row],
           column_symbols(1, fi[1])[row],
           column_symbols(2, fi[2])[row] >>]

\* the loop of finish_spin with total_payout = payout instead of +=
RECURSIVE sum_lines_overwrite(_, _, _, _)
sum_lines_overwrite(lines, b, i, acc) ==
    IF i > 2 THEN acc
    ELSE LET payout == get_payout_info_for_line(lines[i], b)[1]
         IN  IF payout > 0
             THEN sum_lines_overwrite(lines, b, i + 1,
                                      <<payout, Append(acc[2], i)>>)
             ELSE sum_lines_overwrite(lines, b, i + 1, acc)

\* finish_spin, lines 343-350: the loop over the lines from line i on;
\* acc is <<total_payout, winning_line_indices>>
RECURSIVE sum_lines(_, _, _, _)
sum_lines(lines, b, i, acc) ==
    IF i > 2 THEN acc
    ELSE LET payout == get_payout_info_for_line(lines[i], b)[1]
         IN  IF payout > 0
             THEN sum_lines(lines, b, i + 1,
                            <<acc[1] + payout, Append(acc[2], i)>>)
             ELSE sum_lines(lines, b, i + 1, acc)

\* SlotGUI.__init__
Construct ==
    /\ coins = 100
    /\ wins = 0
    /\ losses = 0
    /\ is_spinning = FALSE
    /\ final_indices = [c \in 0..2 |-> 0]
    /\ reels_stopped = [c \in 0..2 |-> FALSE]
    /\ reel_positions \in {p \in {as_list(t) : t \in StartPositions} :
                             \A c \in 0..2 : p[c] \in randint(0, strip_len(c) - 1)}
    /\ animation_id = "None"
    /\ after_queue = [animate_reels |-> 0, finish_spin |-> 0]
    /\ reel_labels = [row \in 0..2 |-> [col \in 0..2 |-> "?"]]
    /\ highlight = {}
    /\ message_label = "press_to_spin"
    /\ lines_to_check = <<>>
    /\ total_payout = 0
    /\ winning_line_indices = <<>>
    /\ spins = 0
    /\ ticks = 0
    /\ last_op = "construct"
    /\ draw_evals = 0

\* handle_button_press -> start_spin, the spin is accepted.  start_spin ends
\* with a direct call of animate_reels, which is part of this step.
StartSpin(explored) ==
    /\ ~is_spinning
    /\ ~insufficient_coins(coins, bet)
    /\ \E drawn \in get_final_indices(explored) :
        LET rs == [c \in 0..2 |-> FALSE]
            rp == advance_positions(reel_positions, rs)
        IN  /\ highlight' = {}
            /\ is_spinning' = TRUE
            /\ reels_stopped' = rs
            /\ coins' = coins - bet
            /\ message_label' = "spinning"
            /\ final_indices' = drawn
            /\ reel_positions' = rp
            /\ reel_labels' = redraw_unstopped(reel_labels, rp, rs)
            /\ animation_id' = "timer"
            /\ after_queue' = [after_queue EXCEPT !.animate_reels = @ + 1]
    /\ spins' = spins + 1
    /\ last_op' = "start_spin"
    /\ draw_evals' = 0
    /\ UNCHANGED <<wins, losses, lines_to_check, total_payout,
                   winning_line_indices, ticks>>
    /\ UNCHANGED line_vars

\* handle_button_press -> start_spin, the spin is refused
StartSpinRefused ==
    /\ ~is_spinning
    /\ insufficient_coins(coins, bet)
    /\ message_label' = "no_coins"
    /\ last_op' = "refused"
    /\ UNCHANGED <<coins, wins, losses, is_spinning, final_indices,
                   reels_stopped, reel_positions, animation_id, after_queue,
                   reel_labels, highlight, lines_to_check, total_payout,
                   winning_line_indices, spins, ticks, draw_evals>>
    /\ UNCHANGED line_vars

\* handle_button_press -> stop_reel
StopReel ==
    /\ is_spinning
    /\ LET reel_to_stop == first_unstopped(reels_stopped)
           rs == [reels_stopped EXCEPT ![reel_to_stop] = TRUE]
       IN  IF reel_to_stop = 3
           THEN UNCHANGED <<reels_stopped, reel_labels, is_spinning,
                            animation_id, after_queue>>
           ELSE /\ reels_stopped' = rs
                /\ reel_labels' = draw_stopped(reel_labels, reel_to_stop,
                                               final_indices)
                /\ IF \A c \in 0..2 : rs[c]
                   THEN /\ is_spinning' = FALSE
                        /\ animation_id' = "None"
                        /\ after_queue' =
                             [animate_reels |->
                                 IF animation_id # "None" THEN 0
                                 ELSE after_queue.animate_reels,
                              finish_spin |-> after_queue.finish_spin + 1]
                   ELSE UNCHANGED <<is_spinning, animation_id, after_queue>>
    /\ last_op' = "stop_reel"
    /\ UNCHANGED <<coins, wins, losses, final_indices, reel_positions,
                   highlight, message_label, lines_to_check, total_payout,
                   winning_line_indices, spins, ticks, draw_evals>>
    /\ UNCHANGED line_vars

\* the 80 ms timer fires: animate_reels
AnimateReels ==
    /\ after_queue.animate_reels > 0
    /\ ticks < MaxTicks
    /\ LET rp == advance_positions(reel_positions, reels_stopped)
       IN  /\ reel_positions' = rp
           /\ reel_labels' = redraw_unstopped(reel_labels, rp, reels_stopped)
    /\ IF is_spinning
       THEN /\ animation_id' = "timer"
            /\ UNCHANGED after_queue
       ELSE /\ after_queue' = [after_queue EXCEPT !.animate_reels = @ - 1]
            /\ UNCHANGED animation_id
    /\ ticks' = ticks + 1
    /\ last_op' = "animate_reels"
    /\ UNCHANGED <<coins, wins, losses, is_spinning, final_indices,
                   reels_stopped, highlight, message_label, lines_to_check,
                   total_payout, winning_line_indices, spins, draw_evals>>
    /\ UNCHANGED line_vars

\* finish_spin without `self.losses += 1`
FinishSpinLossUncounted ==
    /\ after_queue.finish_spin > 0
    /\ after_queue' = [after_queue EXCEPT !.finish_spin = @ - 1]
    /\ LET lines == build_lines(final_indices)
           res == sum_lines(lines, bet, 0, <<0, <<>> >>)
       IN  /\ lines_to_check' = lines
           /\ total_payout' = res[1]
           /\ winning_line_indices' = res[2]
           /\ highlight' = highlight \cup {res[2][k] : k \in 1..Len(res[2])}
           /\ IF res[1] > 0
              THEN /\ message_label' = "win"
                   /\ coins' = coins + res[1]
                   /\ wins' = wins + 1
                   /\ UNCHANGED losses
              ELSE /\ message_label' = "loss"
                   /\ UNCHANGED <<coins, wins, losses>>
    /\ last_op' = "finish_spin"
    /\ draw_evals' = draw_evals + 1
    /\ UNCHANGED <<is_spinning, final_indices, reels_stopped, reel_positions,
                   animation_id, reel_labels, spins, ticks>>
    /\ UNCHANGED line_vars

\* the 500 ms timer fires: finish_spin
FinishSpin ==
    /\ after_queue.finish_spin > 0
    /\ after_queue' = [after_queue EXCEPT !.finish_spin = @ - 1]
    /\ LET lines == build_lines(final_indices)
           res == sum_lines(lines, bet, 0, <<0, <<>> >>)
       IN  /\ lines_to_check' = lines
           /\ total_payout' = res[1]
           /\ winning_line_indices' = res[2]
           /\ highlight' = highlight \cup {res[2][k] : k \in 1..Len(res[2])}
           /\ IF res[1] > 0
              THEN /\ message_label' = "win"
                   /\ coins' = coins + res[1]
                   /\ wins' = wins + 1
                   /\ UNCHANGED losses
              ELSE /\ message_label' = "loss"
                   /\ losses' = losses + 1
                   /\ UNCHANGED <<coins, wins>>
    /\ last_op' = "finish_spin"
    /\ draw_evals' = draw_evals + 1
    /\ UNCHANGED <<is_spinning, final_indices, reels_stopped, reel_positions,
                   animation_id, reel_labels, spins, ticks>>
    /\ UNCHANGED line_vars

----------------------------------------------------------------------------
(* A whole session: presses and timers in any order, sampled draws *)

LineIdle ==
    /\ line = <<>>
    /\ line_bet = 0
    /\ line_result = <<>>
    /\ grid_result = <<>>
    /\ line_raised = "None"

Init == Construct /\ LineIdle

SessionStartSpin ==
    /\ spins < MaxSpins
    /\ StartSpin({as_list(t) : t \in SessionStops})

Next ==
    \/ SessionStartSpin
    \/ StartSpinRefused
    \/ StopReel
    \/ AnimateReels
    \/ FinishSpin

Spec == Init /\ [][Next]_vars

\* The Tk event loop runs every timer callback that is due, and the player
\* keeps pressing the button while the reels spin.
Fairness ==
    /\ WF_vars(StopReel)
    /\ WF_vars(AnimateReels)
    /\ WF_vars(FinishSpin)

SpecLive == Init /\ [][Next]_vars /\ Fairness

----------------------------------------------------------------------------
(* The first spin of a session, with every draw get_final_indices can make *)

FirstStartSpin ==
    /\ spins = 0
    /\ StartSpin(CandidateStops)

NextFirst ==
    \/ FirstStartSpin
    \/ StopReel
    \/ AnimateReels
    \/ FinishSpin

SpecFirst == Init /\ [][NextFirst]_vars

----------------------------------------------------------------------------
(* The line evaluator on its own: one call per line and bet *)

Lines == UNION {[1..n -> LineSymbols] : n \in 0..MaxLineLen}

\* finish_spin's loop (lines 343-350) on a grid whose three rows are the
\* line l; the IndexError of the line evaluator propagates
same_line_grid_result(l, b) ==
    IF raised(get_payout_info_for_line(l, b))
    THEN <<"IndexError">>
    ELSE sum_lines([row \in 0..2 |-> l], b, 0, <<0, <<>> >>)

InitLine ==
    /\ Construct
    /\ line \in Lines
    /\ line_bet \in LineBets
    /\ line_result = <<>>
    /\ grid_result = <<>>
    /\ line_raised = "None"

EvaluateLine ==
    /\ line_result = <<>>
    /\ line_result' = get_payout_info_for_line(line, line_bet)
    /\ grid_result' = same_line_grid_result(line, line_bet)
    /\ line_raised' = IF raised(get_payout_info_for_line(line, line_bet))
                      THEN "IndexError" ELSE "None"
    /\ UNCHANGED <<line, line_bet>>
    /\ UNCHANGED gui_vars

NextLine == EvaluateLine

SpecLine == InitLine /\ [][NextLine]_vars

----------------------------------------------------------------------------
(* Properties *)

all_stopped == \A c \in 0..2 : reels_stopped[c]

\* C1: a spin is accepted only when every earlier accepted spin has been
\* settled by its finish_spin (no finish_spin timer is pending).
C1_OneSpinAtATime ==
    [][spins' = spins + 1 =>
          /\ after_queue.finish_spin = 0
          /\ wins + losses = spins]_vars

\* C2: the balance is a non-negative integer in every reachable state.
C2_CoinsNonNegative == coins \in Nat

C2_Witness == coins = 0 /\ losses = 10 /\ last_op = "finish_spin"

\* C3: a refused start_spin happens only with coins < bet and leaves coins,
\* is_spinning, reels_stopped, final_indices, wins and losses as they were;
\* a spin is accepted only with coins >= bet.
C3_RefusedSpin ==
    [][/\ (last_op' = "refused" /\ message_label' = "no_coins") =>
             /\ coins < bet
             /\ UNCHANGED <<coins, is_spinning, reels_stopped, final_indices,
                            wins, losses>>
       /\ (~is_spinning /\ coins < bet) => spins' = spins
       /\ spins' = spins + 1 => coins >= bet]_vars

C3_Witness == last_op = "refused" /\ coins < bet /\ spins = 10

\* C4: the balance goes down only in an accepted start_spin, goes up only in
\* finish_spin, and never goes up while a spin is in progress (is_spinning,
\* or a reel of the current spin not yet stopped).
C4_CreditAfterSpin ==
    [][/\ coins' < coins => (last_op' = "start_spin" /\ coins' = coins - bet)
       /\ coins' > coins => /\ last_op' = "finish_spin"
                            /\ ~is_spinning
                            /\ all_stopped]_vars

\* C5: a line [X, X, X] of a symbol X of the payout table pays
\* bet x PAYOUTS[X] with the three-of-a-kind reason; three cherries pay
\* bet x 10 and never the two-cherry bonus.
C5_ThreeOfAKind ==
    (line_result # <<>> /\ Len(line) = 3 /\ line[1] = line[2]
       /\ line[2] = line[3] /\ line[1] \in SYMBOLS) =>
        /\ line_result = <<line_bet * PAYOUTS[line[1]],
                           <<line[1], "three_of_a_kind">> >>
        /\ line[1] = "cherry" =>
              /\ line_result[1] = line_bet * 10
              /\ line_result[2] # "two_cherries_from_left"

C5_Witness ==
    /\ line_result # <<>>
    /\ line = <<"cherry", "cherry", "cherry">>
    /\ line_bet = 25
    /\ line_result = <<250, <<"cherry", "three_of_a_kind">> >>

\* C6: a row of three alphabet symbols that is not three-of-a-kind pays
\* bet x 5 exactly when columns 0 and 1 are both cherry, and otherwise pays 0
\* with no reason.
C6_PositionalRule ==
    (line_result # <<>> /\ Len(line) = 3
       /\ (\A k \in 1..3 : line[k] \in SYMBOLS)
       /\ ~(line[1] = line[2] /\ line[2] = line[3])) =>
        /\ line_result[1] = line_bet * 5 <=>
              (line[1] = "cherry" /\ line[2] = "cherry")
        /\ ~(line[1] = "cherry" /\ line[2] = "cherry") =>
              line_result = <<0, "None">>

C6_Witness ==
    /\ line_result # <<>>
    /\ line = <<"lemon", "cherry", "cherry">>
    /\ line_bet = 10
    /\ line_result = <<0, "None">>

\* number of cherries of a line
cherry_count(l) == Cardinality({k \in 1..Len(l) : l[k] = "cherry"})

row_payout(r) ==
    get_payout_info_for_line(build_lines(final_indices)[r], bet)[1]

\* the rows with a payout, in ascending order
paying_rows ==
    LET pays(r) == row_payout(r) > 0
    IN  SelectSeq(<<0, 1, 2>>, pays)

\* C8: once finish_spin has settled the first spin, its total is the sum of
\* the three row payouts, that total is what was credited, and the winning
\* rows are exactly the rows with a payout, in ascending order.
C8_SumOfRows ==
    (wins + losses = 1) =>
        /\ total_payout = row_payout(0) + row_payout(1) + row_payout(2)
        /\ coins = 100 - bet + total_payout
        /\ winning_line_indices = paying_rows

C8_Witness ==
    /\ wins = 1
    /\ Len(winning_line_indices) = 2
    /\ total_payout = 150

\* index of the strip cell above / below cell i, written out with the
\* wraparound at both ends
cell_above(i) == IF i = 0 THEN 11 ELSE i - 1
cell_below(i) == IF i = 11 THEN 0 ELSE i + 1

\* the three symbols of strip s visible at stop index i
window_at(s, i) ==
    << REEL_STRIPS[s + 1][cell_above(i) + 1],
       REEL_STRIPS[s + 1][i + 1],
       REEL_STRIPS[s + 1][cell_below(i) + 1] >>

\* C9: a column stopped by stop_reel shows, in rows 0, 1, 2, the strip cells
\* above, at and below its stop index (wrapping at 0 and 11), and the grid
\* built by finish_spin holds the same cells.
C9_WindowWraps ==
    /\ \A c \in 0..2 : reels_stopped[c] =>
          \A r \in 0..2 :
              reel_labels[r][c] = window_at(c, final_indices[c])[r + 1]
    /\ lines_to_check # <<>> =>
          \A r \in 0..2 : \A c \in 0..2 :
              lines_to_check[r][c + 1] = window_at(c, final_indices[c])[r + 1]

C9_Witness ==
    /\ last_op = "finish_spin"
    /\ final_indices[0] = 0
    /\ final_indices[1] = 11
    /\ reel_labels[0][0] = "lemon"
    /\ lines_to_check[2][2] = "cherry"

\* C10: every stop index and every reel position is an index of its strip.
C10_IndicesInRange ==
    \A c \in 0..2 :
        /\ final_indices[c] \in 0..11
        /\ reel_positions[c] \in 0..11

C10_Witness ==
    /\ last_op = "animate_reels"
    /\ reels_stopped[0] /\ ~reels_stopped[1]
    /\ final_indices[2] = 11
    /\ reel_positions[0] = 0
    /\ reel_positions[1] = 2
    /\ ticks = 1


\* the multipliers a row can pay
RowMultipliers == {0, 5, 10, 20, 50, 100}

\* C11: for the grid finish_spin builds from any stop indices, each row pays
\* bet times one of 0, 5, 10, 20, 50, 100, and the total credited is a
\* non-negative multiple of the bet.
C11_PayoutMultiples ==
    lines_to_check # <<>> =>
        /\ \A r \in 0..2 :
              \E m \in RowMultipliers :
                  get_payout_info_for_line(lines_to_check[r], bet)[1] = bet * m
        /\ total_payout >= 0
        /\ total_payout % bet = 0
        /\ coins - (100 - bet) = total_payout

C11_Witness ==
    /\ last_op = "finish_spin"
    /\ lines_to_check[1] = <<"seven", "seven", "seven">>
    /\ final_indices = as_list(<<0, 2, 7>>)
    /\ total_payout = 1100
    /\ coins = 1190

\* C12: stop indices [0, 0, 0] give the centre row [seven, cherry, star],
\* which pays 0 with no reason and is not a winning row.
C12_ZeroZeroZero ==
    (lines_to_check # <<>> /\ final_indices = [c \in 0..2 |-> 0]) =>
        /\ lines_to_check[1] = <<"seven", "cherry", "star">>
        /\ get_payout_info_for_line(lines_to_check[1], bet) = <<0, "None">>
        /\ \A k \in 1..Len(winning_line_indices) : winning_line_indices[k] # 1
        /\ 1 \notin highlight

C12_Witness ==
    /\ last_op = "finish_spin"
    /\ final_indices = [c \in 0..2 |-> 0]
    /\ reel_labels[1] = [c \in 0..2 |-> lines_to_check[1][c + 1]]
    /\ losses = 1
    /\ message_label = "loss"


\* C13: every accepted spin is eventually followed by a finish_spin that
\* evaluates the draw of that spin, after which is_spinning is false.
C13_SpinCompletes ==
    \A n \in 1..MaxSpins :
        (spins = n) ~> (spins = n /\ draw_evals >= 1 /\ ~is_spinning)


\* C14: a line whose length is not 3 makes the line evaluator fail instead
\* of returning a payout.
C14_RejectsMalformedLine ==
    (line_result # <<>> /\ Len(line) # 3) => line_raised # "None"

\* C15: three of a symbol that PAYOUTS lacks pay 0, without an error, and the
\* loop of finish_spin neither counts such a row as winning nor credits it.
C15_UnknownSymbolPaysZero ==
    (line_result # <<>> /\ Len(line) = 3 /\ line[1] = line[2]
       /\ line[2] = line[3] /\ line[1] \notin DOMAIN PAYOUTS) =>
        /\ line_raised = "None"
        /\ line_result[1] = 0
        /\ grid_result = <<0, <<>> >>

C15_Witness ==
    /\ line = <<"bar", "bar", "bar">>
    /\ line_bet = 25
    /\ line_result = <<0, <<"bar", "three_of_a_kind">> >>
    /\ grid_result = <<0, <<>> >>


\* C16: the draw of every accepted spin is evaluated by exactly one
\* finish_spin: it has been evaluated once when the next start_spin replaces
\* it, it is never evaluated twice, and final_indices does not change while
\* a finish_spin is pending.
C16_SettledExactlyOnce ==
    [][/\ (spins' = spins + 1 /\ spins > 0) => draw_evals = 1
       /\ draw_evals' <= 1
       /\ final_indices' # final_indices => after_queue.finish_spin = 0]_vars

\* number of stopped reels
stopped_count(rs) == Cardinality({c \in 0..2 : rs[c]})

\* C17: reels_stopped always has the form [True.., False..]; a press while
\* is_spinning stops exactly the lowest-indexed unstopped reel; is_spinning
\* becomes false exactly on the press that stops the third reel.
C17_LeftToRight ==
    /\ [](\A c \in 0..2 : \A d \in 0..2 :
             (c < d /\ reels_stopped[d]) => reels_stopped[c])
    /\ [][/\ (is_spinning /\ last_op' = "stop_reel") =>
                /\ stopped_count(reels_stopped) < 3
                /\ reels_stopped' =
                     [reels_stopped EXCEPT ![stopped_count(reels_stopped)] = TRUE]
          /\ (is_spinning /\ ~is_spinning') <=>
                /\ is_spinning
                /\ last_op' = "stop_reel"
                /\ stopped_count(reels_stopped) = 2]_vars

C17_Witness ==
    /\ is_spinning
    /\ last_op = "stop_reel"
    /\ reels_stopped = as_list(<<TRUE, TRUE, FALSE>>)
    /\ spins = 2

\* C18: every stopped column shows the strip cells above, at and below its
\* stop index, and an animate_reels tick leaves the display and the
\* reel_positions entry of every stopped column as they were.
C18_StoppedReelStays ==
    /\ [](\A c \in 0..2 : reels_stopped[c] =>
             \A r \in 0..2 :
                 reel_labels[r][c] = window_at(c, final_indices[c])[r + 1])
    /\ [][ticks' = ticks + 1 =>
             \A c \in 0..2 : reels_stopped[c] =>
                 /\ reel_positions'[c] = reel_positions[c]
                 /\ \A r \in 0..2 : reel_labels'[r][c] = reel_labels[r][c]]_vars

C18_Witness ==
    /\ last_op = "animate_reels"
    /\ reels_stopped[0] /\ ~reels_stopped[2]
    /\ final_indices[0] = 11
    /\ reel_labels[2][0] = "seven"
    /\ reel_positions[0] # final_indices[0]
    /\ reel_positions[2] # final_indices[2]

\* C19: wins + losses never exceeds the accepted spins and equals them when
\* no spin is in progress and no finish_spin is pending; each finish_spin
\* counts a win and credits its total when the total is positive, and
\* otherwise counts a loss and leaves the balance alone.
C19_StatsConsistent ==
    /\ [](/\ wins + losses <= spins
          /\ (~is_spinning /\ after_queue.finish_spin = 0) =>
                wins + losses = spins)
    /\ [][after_queue'.finish_spin = after_queue.finish_spin - 1 =>
             \/ /\ total_payout' > 0
                /\ wins' = wins + 1
                /\ losses' = losses
                /\ coins' = coins + total_payout'
             \/ /\ total_payout' = 0
                /\ losses' = losses + 1
                /\ wins' = wins
                /\ coins' = coins]_vars

C19_Witness ==
    /\ last_op = "finish_spin"
    /\ ~is_spinning
    /\ after_queue.finish_spin = 0
    /\ wins = 2
    /\ losses = 3
    /\ spins = 5
    /\ coins = 150

====
